---- MODULE Spec2Model ----
(***************************************************************************)
(* A model of the worker thread pool of hello-rst (src/src/lib.rs).        *)
(*                                                                         *)
(* One owner thread constructs the pool (ThreadPool::new), submits jobs    *)
(* (ThreadPool::execute) and releases it (Drop::drop).  Every worker is a  *)
(* thread running the loop of Worker::new:                                 *)
(*     lock the receiver mutex, recv, drop the guard, match the message,   *)
(*     run the job or break.                                               *)
(* The mpsc channel is a FIFO queue with one Sender (held in the pool's    *)
(* `sender` field) and one Receiver (held, behind Arc<Mutex<..>>, by the   *)
(* worker threads only: ThreadPool::new drops its own Arc on return).      *)
(*                                                                         *)
(* A job is a closure; the pool only sees whether running it returns or    *)
(* panics, so a job is [id, kind] with kind in JobKinds.  The id is the    *)
(* position of the job in the order of the accepted calls to execute.      *)
(*                                                                         *)
(* The owner may call execute and drop also on a pool value whose teardown *)
(* has already run: the code of both handlers is written for that case     *)
(* (Option::take, Option::unwrap).                                         *)
(*                                                                         *)
(* The owner can panic while it holds the pool: in execute, or by itself    *)
(* (stream.unwrap() in main, with `pool` a live local).  Either panic       *)
(* unwinds the owner.  When the pool is a local of the                      *)
(* owner (`let pool` in src/src/main.rs) the unwinding drops it, so         *)
(* Drop::drop runs with the panic pending; a panic of join().unwrap() in    *)
(* that drop is a panic in a destructor during cleanup and aborts the       *)
(* process, worker threads included.  When the caller catches the panic     *)
(* and keeps the pool, the panic is over: the owner goes on with the pool,  *)
(* and a later drop is an ordinary one, whose join panic is an ordinary     *)
(* panic.  fault is the panic the owner is in, "none" when it is in none.   *)
(* A pool that is leaked is never dropped: the owner stays at "fault".      *)
(*                                                                         *)
(* The environment can fail the code at three kinds of places: thread::spawn *)
(* panics when the operating system refuses a thread, println! panics when  *)
(* standard output cannot be written, and the process ends when its main    *)
(* thread, the owner in main.rs, has ended.                                 *)
(***************************************************************************)
EXTENDS Naturals, Integers, Sequences, FiniteSets

VARIABLES
    pc,         \* position of the owner thread
    fault,      \* the panic that ended the owner thread, or "none"
    size,       \* the argument of ThreadPool::new
    calls,      \* number of calls of ThreadPool::execute
    di,         \* index of `for worker in &mut self.workers` in drop
    workers,    \* ThreadPool.workers: index -> [id, thread]
    sender,     \* ThreadPool.sender: "Some" or "None"
    senders,    \* number of live Sender handles of the channel
    queue,      \* messages buffered in the channel
    lock,       \* the worker holding the MutexGuard, or NoWorker
    poisoned,   \* the mutex's poison flag
    wpc,        \* position of each worker thread
    message,    \* each worker thread's local `message`
    submitted,  \* number of jobs accepted by send
    claimed,    \* job ids in the order recv returned them
    started,    \* job id -> number of times job() was entered
    finished,   \* job id -> number of times job() returned
    panicked,   \* ids of the jobs whose job() panicked
    discarded,  \* ids of the jobs dropped with the Receiver
    unrun,      \* ids of the jobs dropped, not called, by a dying worker
    closes,     \* number of times the live Sender of the channel was dropped
    joins       \* worker index -> number of times its thread was joined

vars == << pc, fault, size, calls, di, workers, sender, senders, queue, lock, poisoned,
           wpc, message, submitted, claimed, started, finished,
           panicked, discarded, unrun, closes, joins >>

\* Bounds of the model.
MaxSize == 3
MaxJobs == 3

JobKinds == {"ok", "panic"}
NoWorker == -1
NoMessage == [tag |-> "none"]
ErrMessage == [tag |-> "Err"]

JobIds == 1..MaxJobs

\* ------------------------------------------------------------------------
\* Helpers

NumWorkers == Cardinality(DOMAIN workers)

\* A worker thread that has left its closure, by break or by unwinding.
Terminated(i) == wpc[i] \in {"exited", "panicked"}

\* The Receiver lives while some worker thread holds a clone of the Arc.
ReceiverAliveAlways == TRUE
ReceiverAlive == \E i \in DOMAIN wpc : ~Terminated(i)

RECURSIVE SeqIds(_)
SeqIds(q) == IF q = << >> THEN {} ELSE {Head(q).id} \cup SeqIds(Tail(q))

\* assert!(size > 0)
SizeOkAlways(n) == TRUE
SizeOk(n) == n > 0

\* for id in 0..size { threads.push(Worker::new(id, ..)) }
NewWorkersPlusOne(n) == [i \in 0..n |-> [id |-> i, thread |-> "Some"]]
NewWorkers(n) == [i \in 0..(n - 1) |-> [id |-> i, thread |-> "Some"]]

\* Mutex::lock returns once no other thread holds the guard.
CanLockAlways == TRUE
CanLock == lock = NoWorker

\* Receiver::recv returns when a message is buffered or every Sender is gone.
RecvReadyAlways == TRUE
RecvReady == queue # << >> \/ senders = 0

\* Receiver::recv, given the buffer and the number of Senders: the oldest
\* buffered message, else (no Sender left) Err.
RecvLast(q, n) ==
    IF q # << >>
    THEN [msg |-> [tag |-> "Ok", job |-> q[Len(q)]], rest |-> SubSeq(q, 1, Len(q) - 1)]
    ELSE [msg |-> ErrMessage, rest |-> q]
RecvErrOnClose(q, n) ==
    IF q # << >> /\ n > 0
    THEN [msg |-> [tag |-> "Ok", job |-> Head(q)], rest |-> Tail(q)]
    ELSE [msg |-> ErrMessage, rest |-> q]
RecvResult(q, n) ==
    IF q # << >>
    THEN [msg |-> [tag |-> "Ok", job |-> Head(q)], rest |-> Tail(q)]
    ELSE [msg |-> ErrMessage, rest |-> q]

\* The holder of the guard after `let message = receiver.lock().unwrap().recv();`
\* the temporary MutexGuard is dropped at the end of the let statement.
GuardHeldAfterLet(i) == i
GuardAfterLet(i) == NoWorker

\* The guard of worker i, if it is still alive, is dropped when its scope ends.
ReleasedBy(i) == IF lock = i THEN NoWorker ELSE lock

\* job() is a call on the worker's own thread: the worker is inside it until
\* it returns or unwinds.
JobCallDetached == "lock"
JobCall == "run"

\* Where the loop continues after job() returned.
AfterJobBreak == "exited"
AfterJob == "lock"

\* Sender::send appends to the unbounded channel.
SendOverwrite(q, job) == IF q = << >> THEN << job >> ELSE SubSeq(q, 1, Len(q) - 1) \o << job >>
SendResult(q, job) == Append(q, job)

\* self.sender.as_ref().unwrap().send(job).unwrap(): unwrap of None panics;
\* send returns Err once the Receiver is gone and the second unwrap panics.
ExecuteFaults == {"unwrap_none", "send_err"}
ExecuteIgnoresNone(s, alive) ==
    IF s = "None" THEN "ignored" ELSE IF ~alive THEN "send_err" ELSE "sent"
ExecuteOutcome(s, alive) ==
    IF s = "None" THEN "unwrap_none" ELSE IF ~alive THEN "send_err" ELSE "sent"

\* drop(self.sender.take()) leaves None in the field.
TakeSenderKeeps(s) == s
TakeSender(s) == "None"

\* worker.thread.take() leaves None in the field.
TakeThreadKeeps(t) == t
TakeThread(t) == "None"

\* JoinHandle::join returns once the thread has terminated.
JoinReadyAlways(i) == TRUE
JoinReady(i) == Terminated(i)

\* join() is Err when the thread panicked, and unwrap() then panics.
JoinNeverFails(i) == FALSE
JoinFails(i) == wpc[i] = "panicked"

\* println! panics when standard output cannot be written.
PrintOutcomes == {"ok", "io_err"}

\* The process is over when a panic inside drop, with the owner already
\* unwinding, has aborted it, or when it has ended with its main thread; no
\* thread takes a step after that.
ProcessAlive == pc \notin {"aborted", "exit"}

\* The panics of the owner that propagate with the pool alive: the two of
\* execute and a panic of the owner's own code.
UnwindFaults == ExecuteFaults \cup {"owner_panic"}

\* Such a panic is propagating in the owner (it has not been caught): a drop
\* that runs now runs in the unwinding.
Unwinding == fault \in UnwindFaults

\* Where a panic inside drop takes the owner: a second panic while it is
\* unwinding aborts the process.
PanicInDrop == IF Unwinding THEN "aborted" ELSE "fault"

\* The owner thread is over: drop returned and the owner with it, or a panic
\* has unwound it with no pool left to drop.
OwnerEnded ==
    \/ pc \in {"dropped", "unwound"}
    \/ pc = "fault" /\ ~Unwinding

\* The worker threads left alive once thread i has terminated.
AliveAfter(i) == {k \in DOMAIN wpc : k # i /\ ~Terminated(k)}

\* Thread i ends: its Arc clone is dropped; the last clone drops the Receiver
\* and with it every message still buffered.
QueueAfterEnd(i) == IF AliveAfter(i) = {} THEN << >> ELSE queue
DiscardedAfterEnd(i) ==
    IF AliveAfter(i) = {} THEN discarded \cup SeqIds(queue) ELSE discarded

\* ------------------------------------------------------------------------
\* Initial state: the owner is about to call ThreadPool::new.

Init ==
    /\ pc = "start"
    /\ fault = "none"
    /\ size = 0
    /\ calls = 0
    /\ di = 0
    /\ workers = << >>
    /\ sender = "None"
    /\ senders = 0
    /\ queue = << >>
    /\ lock = NoWorker
    /\ poisoned = FALSE
    /\ wpc = << >>
    /\ message = << >>
    /\ submitted = 0
    /\ claimed = << >>
    /\ started = [j \in JobIds |-> 0]
    /\ finished = [j \in JobIds |-> 0]
    /\ panicked = {}
    /\ discarded = {}
    /\ unrun = {}
    /\ closes = 0
    /\ joins = << >>

\* ------------------------------------------------------------------------
\* Owner thread

\* ThreadPool::new(size); spawned is the number of threads thread::spawn
\* created: all of them, or fewer when the operating system refuses one.
ThreadPoolNew(n, spawned) ==
    /\ pc = "start"
    /\ size' = n
    /\ IF ~SizeOk(n)
       THEN /\ pc' = "fault"
            /\ fault' = "assert_size"
            /\ UNCHANGED << workers, sender, senders, wpc, message, joins, closes >>
       ELSE IF spawned < n
       THEN \* thread::spawn panics: new unwinds, dropping the Sender, its Arc
            \* of the Receiver and the workers pushed so far (their threads
            \* run on, detached); no pool is returned
            /\ pc' = "fault"
            /\ fault' = "spawn_err"
            /\ wpc' = [i \in 0..(spawned - 1) |-> "lock"]
            /\ message' = [i \in 0..(spawned - 1) |-> NoMessage]
            /\ closes' = closes + 1
            /\ UNCHANGED << workers, sender, senders, joins >>
       ELSE /\ pc' = "ready"
            /\ workers' = NewWorkers(n)
            /\ wpc' = [i \in DOMAIN NewWorkers(n) |-> "lock"]
            /\ message' = [i \in DOMAIN NewWorkers(n) |-> NoMessage]
            /\ joins' = [i \in DOMAIN NewWorkers(n) |-> 0]
            /\ sender' = "Some"
            /\ senders' = 1
            /\ fault' = fault
            /\ closes' = closes
    /\ UNCHANGED << calls, di, queue, lock, poisoned, submitted, claimed,
                    started, finished, panicked, discarded, unrun >>

\* ThreadPool::execute(f), f a closure of the given kind
Execute(kind) ==
    /\ pc \in {"ready", "dropped"}
    /\ calls < MaxJobs
    /\ calls' = calls + 1
    /\ LET o == ExecuteOutcome(sender, ReceiverAlive) IN
       /\ pc' = IF o \in ExecuteFaults THEN "fault" ELSE pc
       /\ fault' = IF o \in ExecuteFaults THEN o ELSE fault
       /\ queue' = IF o = "sent"
                   THEN SendResult(queue, [id |-> submitted + 1, kind |-> kind])
                   ELSE queue
       /\ submitted' = IF o = "sent" THEN submitted + 1 ELSE submitted
    /\ UNCHANGED << size, di, workers, sender, senders, lock, poisoned, wpc,
                    message, claimed, started, finished, panicked,
                    discarded, unrun, closes, joins >>

\* The owner panics by itself while it holds the pool, as stream.unwrap() of
\* main does on a failed connection.
OwnerPanic ==
    /\ pc \in {"ready", "dropped"}
    /\ pc' = "fault"
    /\ fault' = "owner_panic"
    /\ UNCHANGED << size, calls, di, workers, sender, senders, queue, lock,
                    poisoned, wpc, message, submitted, claimed, started,
                    finished, panicked, discarded, unrun, closes, joins >>

\* The panic is caught below the pool, which is kept: the owner is
\* in no panic any more and is back where it was before the call, with a pool
\* on which drop has run (sender None) or has not.
CatchUnwind ==
    /\ pc = "fault"
    /\ Unwinding
    /\ pc' = IF sender = "None" THEN "dropped" ELSE "ready"
    /\ fault' = "none"
    /\ UNCHANGED << size, calls, di, workers, sender, senders, queue, lock,
                    poisoned, wpc, message, submitted, claimed, started,
                    finished, panicked, discarded, unrun, closes, joins >>

\* The owner thread has ended, by returning with the pool dropped or by a
\* panic that has unwound it; when it is the main thread, as in main.rs, the
\* process ends with it, whatever the worker threads are doing.
ProcessExit ==
    /\ OwnerEnded
    /\ pc' = "exit"
    /\ UNCHANGED << fault, size, calls, di, workers, sender, senders, queue,
                    lock, poisoned, wpc, message, submitted, claimed, started,
                    finished, panicked, discarded, unrun, closes, joins >>

\* Drop::drop is entered: drop(self.sender.take())
DropBegin ==
    /\ \/ pc \in {"ready", "dropped"}
       \/ pc = "fault" /\ Unwinding
    /\ pc' = "drop_loop"
    /\ di' = 0
    /\ sender' = TakeSender(sender)
    /\ senders' = IF sender = "Some" /\ TakeSender(sender) = "None"
                  THEN senders - 1 ELSE senders
    /\ closes' = IF sender = "Some" /\ TakeSender(sender) = "None"
                 THEN closes + 1 ELSE closes
    /\ UNCHANGED << fault, size, calls, workers, queue, lock, poisoned, wpc,
                    message, submitted, claimed, started, finished,
                    panicked, discarded, unrun, joins >>

\* println!("Shutting down worker {}"), then
\* if let Some(thread) = worker.thread.take()
DropTake(out) ==
    /\ pc = "drop_loop"
    /\ di < NumWorkers
    /\ IF out = "io_err"
       THEN /\ pc' = PanicInDrop
            /\ fault' = IF Unwinding THEN fault ELSE "io_err"
            /\ UNCHANGED << workers, di >>
       ELSE /\ fault' = fault
            /\ IF workers[di].thread = "Some"
               THEN /\ workers' = [workers EXCEPT ![di].thread = TakeThread(@)]
                    /\ pc' = "drop_join"
                    /\ di' = di
               ELSE /\ di' = di + 1
                    /\ UNCHANGED << workers, pc >>
    /\ UNCHANGED << size, calls, sender, senders, queue, lock, poisoned,
                    wpc, message, submitted, claimed, started, finished, panicked,
                    discarded, unrun, closes, joins >>

\* thread.join().unwrap()
DropJoin ==
    /\ pc = "drop_join"
    /\ JoinReady(di)
    /\ joins' = [joins EXCEPT ![di] = @ + 1]
    /\ IF JoinFails(di)
       THEN /\ pc' = PanicInDrop
            /\ fault' = IF Unwinding THEN fault ELSE "join_err"
            /\ di' = di
       ELSE /\ pc' = "drop_loop"
            /\ di' = di + 1
            /\ fault' = fault
    /\ UNCHANGED << size, calls, workers, sender, senders, queue, lock, poisoned,
                    wpc, message, submitted, claimed, started, finished, panicked,
                    discarded, unrun, closes >>

\* the for loop is exhausted and drop returns
DropReturn ==
    /\ pc = "drop_loop"
    /\ di = NumWorkers
    /\ pc' = IF Unwinding THEN "unwound" ELSE "dropped"
    /\ UNCHANGED << fault, size, calls, di, workers, sender, senders, queue,
                    lock, poisoned, wpc, message, submitted, claimed, started, finished,
                    panicked, discarded, unrun, closes, joins >>

\* ------------------------------------------------------------------------
\* Worker threads (the closure of Worker::new)

\* receiver.lock().unwrap()
WorkerLock(i) ==
    /\ ProcessAlive
    /\ wpc[i] = "lock"
    /\ CanLock
    /\ IF poisoned
       THEN /\ wpc' = [wpc EXCEPT ![i] = "panicked"]
            /\ queue' = QueueAfterEnd(i)
            /\ discarded' = DiscardedAfterEnd(i)
            /\ lock' = lock
       ELSE /\ wpc' = [wpc EXCEPT ![i] = "recv"]
            /\ lock' = i
            /\ UNCHANGED << queue, discarded >>
    /\ UNCHANGED << pc, fault, size, calls, di, workers, sender, senders, poisoned, message,
                    submitted, claimed, started, finished, panicked, unrun,
                    closes, joins >>

\* .recv()
WorkerRecv(i) ==
    /\ ProcessAlive
    /\ wpc[i] = "recv"
    /\ RecvReady
    /\ LET r == RecvResult(queue, senders) IN
       /\ message' = [message EXCEPT ![i] = r.msg]
       /\ queue' = r.rest
       /\ IF r.msg.tag = "Ok"
          THEN claimed' = Append(claimed, r.msg.job.id)
          ELSE claimed' = claimed
    /\ wpc' = [wpc EXCEPT ![i] = "unlock"]
    /\ UNCHANGED << pc, fault, size, calls, di, workers, sender, senders, lock, poisoned,
                    submitted, started, finished, panicked, discarded, unrun,
                    closes, joins >>

\* end of the let statement: its temporaries are dropped
WorkerUnlock(i) ==
    /\ ProcessAlive
    /\ wpc[i] = "unlock"
    /\ lock' = GuardAfterLet(i)
    /\ wpc' = [wpc EXCEPT ![i] = "match"]
    /\ UNCHANGED << pc, fault, size, calls, di, workers, sender, senders, queue, poisoned,
                    message, submitted, claimed, started, finished,
                    panicked, discarded, unrun, closes, joins >>

\* match message { Ok(job) => println!("Worker {id} got a job; executing."),
\* then job() is entered; a println! that cannot write panics, the thread
\* unwinds and the job it holds is dropped without having been called
WorkerStartJob(i, out) ==
    /\ ProcessAlive
    /\ wpc[i] = "match"
    /\ message[i].tag = "Ok"
    /\ IF out = "io_err"
       THEN /\ wpc' = [wpc EXCEPT ![i] = "panicked"]
            /\ unrun' = unrun \cup {message[i].job.id}
            /\ message' = [message EXCEPT ![i] = NoMessage]
            /\ poisoned' = (poisoned \/ lock = i)
            /\ lock' = ReleasedBy(i)
            /\ queue' = QueueAfterEnd(i)
            /\ discarded' = DiscardedAfterEnd(i)
            /\ started' = started
       ELSE /\ wpc' = [wpc EXCEPT ![i] = JobCall]
            /\ started' = [started EXCEPT ![message[i].job.id] = @ + 1]
            /\ UNCHANGED << unrun, message, poisoned, lock, queue, discarded >>
    /\ UNCHANGED << pc, fault, size, calls, di, workers, sender, senders,
                    submitted, claimed, finished, panicked, closes, joins >>

\* match message { Err(_) => println!("Worker {id} disconnected; shutting
\* down."), then break: the thread ends; by a panic when println! cannot write
WorkerDisconnect(i, out) ==
    /\ ProcessAlive
    /\ wpc[i] = "match"
    /\ message[i].tag = "Err"
    /\ IF out = "io_err"
       THEN /\ wpc' = [wpc EXCEPT ![i] = "panicked"]
            /\ message' = [message EXCEPT ![i] = NoMessage]
            /\ poisoned' = (poisoned \/ lock = i)
       ELSE /\ wpc' = [wpc EXCEPT ![i] = "exited"]
            /\ UNCHANGED << message, poisoned >>
    /\ lock' = ReleasedBy(i)
    /\ queue' = QueueAfterEnd(i)
    /\ discarded' = DiscardedAfterEnd(i)
    /\ UNCHANGED << pc, fault, size, calls, di, workers, sender, senders,
                    submitted, claimed, started, finished, panicked, unrun,
                    closes, joins >>

\* job() returns; the loop starts over
WorkerFinishJob(i) ==
    /\ ProcessAlive
    /\ wpc[i] = "run"
    /\ message[i].job.kind = "ok"
    /\ finished' = [finished EXCEPT ![message[i].job.id] = @ + 1]
    /\ message' = [message EXCEPT ![i] = NoMessage]
    /\ lock' = ReleasedBy(i)
    /\ wpc' = [wpc EXCEPT ![i] = AfterJob]
    /\ queue' = IF AfterJob = "exited" THEN QueueAfterEnd(i) ELSE queue
    /\ discarded' = IF AfterJob = "exited" THEN DiscardedAfterEnd(i) ELSE discarded
    /\ UNCHANGED << pc, fault, size, calls, di, workers, sender, senders, poisoned, submitted,
                    claimed, started, panicked, unrun, closes, joins >>

\* job() panics; the thread unwinds
WorkerPanicJob(i) ==
    /\ ProcessAlive
    /\ wpc[i] = "run"
    /\ message[i].job.kind = "panic"
    /\ panicked' = panicked \cup {message[i].job.id}
    /\ message' = [message EXCEPT ![i] = NoMessage]
    /\ poisoned' = (poisoned \/ lock = i)
    /\ lock' = ReleasedBy(i)
    /\ wpc' = [wpc EXCEPT ![i] = "panicked"]
    /\ queue' = QueueAfterEnd(i)
    /\ discarded' = DiscardedAfterEnd(i)
    /\ UNCHANGED << pc, fault, size, calls, di, workers, sender, senders, submitted, claimed,
                    started, finished, unrun, closes, joins >>

\* ------------------------------------------------------------------------
\* Specifications

WorkerStep(i) ==
    \/ WorkerLock(i)
    \/ WorkerRecv(i)
    \/ WorkerUnlock(i)
    \/ \E out \in PrintOutcomes : WorkerStartJob(i, out)
    \/ \E out \in PrintOutcomes : WorkerDisconnect(i, out)
    \/ WorkerFinishJob(i)

DropStep == (\E out \in PrintOutcomes : DropTake(out)) \/ DropJoin \/ DropReturn

Next ==
    \/ \E n \in 0..MaxSize : \E spawned \in 0..n : ThreadPoolNew(n, spawned)
    \/ \E kind \in JobKinds : Execute(kind)
    \/ OwnerPanic
    \/ CatchUnwind
    \/ ProcessExit
    \/ DropBegin
    \/ \E out \in PrintOutcomes : DropTake(out)
    \/ DropJoin
    \/ DropReturn
    \/ \E i \in DOMAIN wpc : WorkerLock(i)
    \/ \E i \in DOMAIN wpc : WorkerRecv(i)
    \/ \E i \in DOMAIN wpc : WorkerUnlock(i)
    \/ \E i \in DOMAIN wpc : \E out \in PrintOutcomes : WorkerStartJob(i, out)
    \/ \E i \in DOMAIN wpc : \E out \in PrintOutcomes : WorkerDisconnect(i, out)
    \/ \E i \in DOMAIN wpc : WorkerFinishJob(i)
    \/ \E i \in DOMAIN wpc : WorkerPanicJob(i)

Spec == Init /\ [][Next]_vars

\* Every job terminates normally; threads are scheduled fairly; a drop that
\* was entered keeps running.
NextOk ==
    \/ \E n \in 0..MaxSize : \E spawned \in 0..n : ThreadPoolNew(n, spawned)
    \/ Execute("ok")
    \/ OwnerPanic
    \/ CatchUnwind
    \/ ProcessExit
    \/ DropBegin
    \/ \E out \in PrintOutcomes : DropTake(out)
    \/ DropJoin
    \/ DropReturn
    \/ \E i \in DOMAIN wpc : WorkerLock(i)
    \/ \E i \in DOMAIN wpc : WorkerRecv(i)
    \/ \E i \in DOMAIN wpc : WorkerUnlock(i)
    \/ \E i \in DOMAIN wpc : \E out \in PrintOutcomes : WorkerStartJob(i, out)
    \/ \E i \in DOMAIN wpc : \E out \in PrintOutcomes : WorkerDisconnect(i, out)
    \/ \E i \in DOMAIN wpc : WorkerFinishJob(i)

FairSpec ==
    /\ Init
    /\ [][NextOk]_vars
    /\ \A i \in 0..(MaxSize - 1) : WF_vars(i \in DOMAIN wpc /\ WorkerStep(i))
    /\ WF_vars(DropStep)

\* Jobs return or panic; threads are scheduled fairly; a drop that was entered
\* keeps running.
FairPanicSpec ==
    /\ Init
    /\ [][Next]_vars
    /\ \A i \in 0..(MaxSize - 1) :
           WF_vars(i \in DOMAIN wpc /\ (WorkerStep(i) \/ WorkerPanicJob(i)))
    /\ WF_vars(DropStep)

\* ------------------------------------------------------------------------
\* Vocabulary of the properties

RECURSIVE SumTo(_, _)
SumTo(f, n) == IF n = 0 THEN 0 ELSE f[n] + SumTo(f, n - 1)
Total(f) == SumTo(f, MaxJobs)
Finished == {j \in JobIds : finished[j] > 0}
Occurrences(f, x) == Cardinality({k \in DOMAIN f : f[k] = x})

\* Jobs a worker holds: recv returned them and job() has not ended yet.
Held == {i \in DOMAIN message : message[i].tag = "Ok"}
Executing == {i \in DOMAIN wpc : wpc[i] = "run"}
InDrop == pc \in {"drop_loop", "drop_join"}

\* drop has returned: to its caller, or into the unwinding of the owner.
DropReturned == pc \in {"dropped", "unwound"}

\* Some worker thread has terminated by a panic.
WorkerDied == \E i \in DOMAIN wpc : wpc[i] = "panicked"

\* ------------------------------------------------------------------------
\* C1 -- Liveness.  With fair scheduling and every job returning normally,
\* every job accepted by execute is eventually run to completion by some
\* worker (whether or not teardown starts before the job is claimed: recv
\* hands out buffered messages after the Sender is gone).
\* The code breaks it when a write to stdout fails: the worker that claimed the
\* job dies at println!("... got a job") before job(), or every worker dies
\* and the queue is dropped with the Receiver.
C1_EveryJobEventuallyExecuted ==
    \A j \in JobIds : (submitted >= j) ~> (j \in Finished)

\* ------------------------------------------------------------------------
\* C2 -- Exactly-once delivery.  As claimed: no job is claimed by two workers
\* or executed twice, and submitted = queued + in execution + finished, where
\* a job held by a worker counts as in execution and a job whose execution
\* ended, normally or by a panic, counts as finished.
AtMostOnce ==
    \A j \in JobIds :
        /\ Occurrences(claimed, j) <= 1
        /\ started[j] <= 1
        /\ finished[j] <= 1
        /\ Cardinality({k \in DOMAIN queue : queue[k].id = j}) <= 1

C2_Original ==
    /\ AtMostOnce
    /\ submitted = Len(queue) + Cardinality(Held) + Total(finished)
                   + Cardinality(panicked)

\* C2 amended -- the same, with two more terms: the jobs that were dropped
\* together with the Receiver when the last worker thread terminated, and the
\* jobs a worker had claimed and dropped, never called, when it died at its
\* failed write; the six places a job can be in are pairwise disjoint and
\* cover exactly the submitted jobs.
C2_ExactlyOnce ==
    /\ AtMostOnce
    /\ submitted = Len(queue) + Cardinality(Held) + Total(finished)
                   + Cardinality(panicked) + Cardinality(discarded)
                   + Cardinality(unrun)
    /\ SeqIds(queue) \cup {message[i].job.id : i \in Held} \cup Finished
           \cup panicked \cup discarded \cup unrun = 1..submitted
    /\ Total(started) = Cardinality(Executing) + Total(finished) + Cardinality(panicked)
    /\ \A j \in unrun : started[j] = 0 /\ Occurrences(claimed, j) = 1

\* Three jobs at once queued, in execution and finished, two workers busy.
C2_Witness ==
    /\ submitted = 3
    /\ Len(queue) = 1
    /\ Cardinality(Executing) = 1
    /\ Total(finished) = 1

\* ------------------------------------------------------------------------
\* C3 -- When drop has returned, every worker thread has left its loop through
\* the break of the Err arm; none is waiting for the lock, receiving, holding
\* a message or running a job.
C3_DropReturnsAfterWorkersExit ==
    DropReturned => \A i \in DOMAIN wpc : wpc[i] = "exited"

\* drop returned on a pool of two workers that had run jobs.
C3_Witness ==
    /\ pc = "dropped"
    /\ NumWorkers = 2
    /\ Total(finished) = 3

\* ------------------------------------------------------------------------
\* C4 -- Teardown terminates.  With fair scheduling and every job returning,
\* a drop that was entered eventually returns, however many jobs are queued
\* or running at that moment.
\* The code breaks it when a write to stdout fails: drop panics at its
\* println!("Shutting down worker"), or at the join of a worker that died at
\* its own println!.
C4_DropTerminates == InDrop ~> DropReturned

\* ------------------------------------------------------------------------
\* C5 -- The receiver lock is held only from lock() to the end of the let
\* statement: a worker that is matching its message, running a job, waiting
\* for the lock or terminated holds no guard, so whenever the lock is taken
\* its holder is inside the let statement.
C5_NoLockWhileExecuting ==
    /\ \A i \in DOMAIN wpc : wpc[i] \in {"match", "run"} => lock # i
    /\ lock # NoWorker => wpc[lock] \in {"recv", "unlock"}

\* Two workers: job 1 is still running while job 2, submitted after it, has
\* already finished.
C5_Witness ==
    /\ NumWorkers = 2
    /\ Finished = {2}
    /\ \E i \in Executing : message[i].job.id = 1

\* ------------------------------------------------------------------------
\* C6 -- FIFO delivery.  Jobs are claimed in the order execute was called:
\* the k-th claim is the k-th submitted job.
C6_ClaimedInSubmissionOrder ==
    \A k \in DOMAIN claimed : claimed[k] = k

\* Three jobs claimed in order by two workers; job 1 is still running when
\* job 2 has finished and job 3 is held by the other worker.
C6_Witness ==
    /\ claimed = << 1, 2, 3 >>
    /\ Finished = {2}
    /\ \E i, k \in Held : i # k /\ message[i].job.id = 1 /\ message[k].job.id = 3

\* ------------------------------------------------------------------------
\* C7 -- Mutual exclusion of claim.  At most one worker is between lock() and
\* the release of the guard, and it is the holder of the mutex.
C7_OneClaimAtATime ==
    /\ Cardinality({i \in DOMAIN wpc : wpc[i] \in {"recv", "unlock"}}) <= 1
    /\ \A i \in DOMAIN wpc : wpc[i] \in {"recv", "unlock"} => lock = i

\* One worker blocked in recv on the empty channel, the other waiting for the lock.
C7_Witness ==
    /\ NumWorkers = 2
    /\ \E i, k \in DOMAIN wpc : wpc[i] = "recv" /\ wpc[k] = "lock" /\ lock = i

\* ------------------------------------------------------------------------
\* C8 -- Submission after teardown is rejected.  Once the sender field is
\* None, a call of execute ends the owner in the fault of unwrap on None and
\* changes neither the queue nor the count of accepted jobs; no step at all
\* adds a job to the queue after the closure.
C8_SubmitAfterCloseRejected ==
    [][ (pc # "start" /\ sender = "None") =>
            /\ Len(queue') <= Len(queue)
            /\ submitted' = submitted
            /\ (calls' # calls =>
                    /\ pc' = "fault"
                    /\ fault' = "unwrap_none"
                    /\ queue' = queue) ]_vars

\* execute was called after a completed teardown and ended in the fault.
C8_Witness ==
    /\ fault = "unwrap_none"
    /\ closes = 1
    /\ calls = submitted + 1

\* ------------------------------------------------------------------------
\* C9 -- ThreadPool::new(0) ends in the fault of the assertion with nothing
\* created: no worker, no thread, no channel, no pool value.  A constructed
\* pool never has zero workers.
C9_NewZeroFails ==
    (pc # "start" /\ size = 0) =>
        /\ pc \in {"fault", "exit"}
        /\ fault = "assert_size"
        /\ workers = << >>
        /\ wpc = << >>
        /\ sender = "None"
        /\ senders = 0

\* new(0) was called.
C9_Witness ==
    /\ size = 0
    /\ fault = "assert_size"

\* ------------------------------------------------------------------------
\* C10 -- As claimed: new(size), size >= 1, creates exactly size workers with
\* ids 0..size-1 in order, each with a thread handle and a thread at the top
\* of its loop; afterwards no step changes the set of workers or any id.
WorkersOfSize ==
    /\ DOMAIN workers = 0..(size - 1)
    /\ DOMAIN wpc = 0..(size - 1)
    /\ \A i \in DOMAIN workers : workers[i].id = i
    /\ \A i, k \in DOMAIN workers : i # k => workers[i].id # workers[k].id
    /\ {workers[i].id : i \in DOMAIN workers} = 0..(size - 1)

WorkersAsConstructed == (pc # "start" /\ size >= 1) => WorkersOfSize

WorkersNeverChange ==
    pc # "start" =>
        /\ DOMAIN workers' = DOMAIN workers
        /\ DOMAIN wpc' = DOMAIN wpc
        /\ \A i \in DOMAIN workers : workers'[i].id = workers[i].id

PoolReturned == pc # "start" /\ size >= 1 /\ fault # "spawn_err"

ExecuteAppends ==
    /\ pc' = "ready"
    /\ fault' = "none"
    /\ submitted' = submitted + 1
    /\ Len(queue') = Len(queue) + 1
    /\ SubSeq(queue', 1, Len(queue)) = queue
    /\ queue'[Len(queue')].id = submitted + 1

C11_Original ==
    [][ /\ pc' = "ready" => (sender' = "Some" /\ senders' = 1)
        /\ (pc = "ready" /\ calls' # calls) => ExecuteAppends ]_vars

\* C11 amended -- while teardown has not begun the producer endpoint is open
\* and execute never blocks; as long as some worker thread has not terminated
\* the call returns without fault, having appended its job behind the jobs
\* already queued, however many are queued and however many workers are busy;
\* once every worker thread has terminated the call ends in the fault of
\* unwrap on the send error and appends nothing.
C11_ExecuteWhileOpen ==
    [][ /\ pc' = "ready" => (sender' = "Some" /\ senders' = 1 /\ closes' = 0)
        /\ (pc = "ready" /\ calls < MaxJobs) => ENABLED Execute("ok")
        /\ (pc = "ready" /\ calls' # calls) =>
               IF \E i \in DOMAIN wpc : ~Terminated(i)
               THEN ExecuteAppends
               ELSE pc' = "fault" /\ fault' = "send_err" /\ queue' = queue
                    /\ submitted' = submitted ]_vars

\* The third job was accepted while two are queued and every worker is busy.
C11_Witness ==
    /\ pc = "ready"
    /\ NumWorkers = 1
    /\ Executing = DOMAIN wpc
    /\ Len(queue) = 2
    /\ submitted = 3

\* ------------------------------------------------------------------------
\* C12 -- Teardown ordering.  While drop runs the producer endpoint is already
\* closed; workers are joined one at a time in construction order: when the
\* handle of worker di has been taken, every worker before it has been joined
\* after its thread exited, and no worker after it has been touched.
C12_CloseThenJoinInOrder ==
    /\ InDrop => (sender = "None" /\ senders = 0)
    /\ \A i \in DOMAIN joins : joins[i] > 0 => (sender = "None" /\ senders = 0)
    /\ \A i, k \in DOMAIN joins : (i < k /\ joins[k] > 0) =>
           (joins[i] > 0 /\ wpc[i] = "exited" /\ workers[i].thread = "None")
    /\ pc = "drop_join" =>
           /\ workers[di].thread = "None" /\ joins[di] = 0
           /\ \A i \in DOMAIN workers :
                  /\ i < di => (joins[i] = 1 /\ wpc[i] = "exited")
                  /\ i > di => (joins[i] = 0 /\ workers[i].thread = "Some")

\* Three workers: worker 0 is joined, drop waits for worker 1, which is still
\* running a job, while worker 2 has already exited and is not joined yet.
C12_Witness ==
    /\ NumWorkers = 3
    /\ pc = "drop_join"
    /\ di = 1
    /\ wpc[1] = "run"
    /\ wpc[2] = "exited"

\* ------------------------------------------------------------------------
\* C13 -- recv returns the closure signal only when the producer endpoint is
\* closed and the queue is empty: a worker that holds Err got it with no
\* Sender left and nothing buffered, and a worker leaves its loop by break
\* only in such a state.
C13_ErrOnlyWhenClosedAndEmpty ==
    [][ \A i \in DOMAIN wpc :
            /\ (message'[i].tag = "Err" /\ message[i].tag # "Err") =>
                   (sender = "None" /\ senders = 0 /\ queue = << >>
                    /\ queue' = << >>)
            /\ message'[i].tag = "Err" =>
                   (sender' = "None" /\ senders' = 0 /\ queue' = << >>)
            /\ (wpc'[i] = "exited" /\ wpc[i] # "exited") =>
                   (senders = 0 /\ queue = << >>) ]_vars

\* A worker got the closure signal after the pool had run all three jobs.
C13_Witness ==
    /\ \E i \in DOMAIN wpc : message[i].tag = "Err" /\ wpc[i] = "match"
    /\ Total(finished) = 3

\* ------------------------------------------------------------------------
\* C14 -- Drain on shutdown.  When drop has returned (which needs that no
\* worker thread died), the queue is empty, nothing was discarded or dropped
\* without being called, and every job that execute enqueued has been run to
\* completion exactly once.
C14_DrainedWhenDropReturns ==
    DropReturned =>
        /\ queue = << >>
        /\ Held = {}
        /\ discarded = {} /\ panicked = {} /\ unrun = {}
        /\ Total(finished) = submitted
        /\ \A j \in 1..submitted : finished[j] = 1

\* A pool of one worker was released with three jobs submitted and drop has
\* returned.
C14_Witness ==
    /\ pc = "dropped"
    /\ NumWorkers = 1
    /\ submitted = 3
    /\ calls = 3

\* ------------------------------------------------------------------------
\* C15 -- As claimed: a worker leaves Running (any position of its loop) only
\* to Stopped, and only from the Err arm of the match, that is after its recv
\* returned the closure signal; a worker out of Running stays where it is.
Running(i) == ~Terminated(i)

C15_Original ==
    [][ \A i \in DOMAIN wpc :
            /\ (Running(i) /\ ~Running(i)') =>
                   (wpc'[i] = "exited" /\ wpc[i] = "match" /\ message[i].tag = "Err")
            /\ ~Running(i) => (wpc'[i] = wpc[i] /\ message'[i] = message[i]) ]_vars

\* C15 amended -- a worker starts Running and leaves Running only to a
\* terminal state: to Stopped from the Err arm of the match, the first time
\* its recv returns the closure signal, or to abnormal termination when the
\* job it runs panics or when the write of its "got a job" or "disconnected"
\* line fails.  After the closure signal it never locks, receives or runs
\* again; a terminated worker never changes, and no worker is added, removed
\* or recreated.
C15_WorkerStateMachine ==
    [][ /\ pc # "start" => DOMAIN wpc' = DOMAIN wpc
        /\ \A i \in DOMAIN wpc :
            /\ (Running(i) /\ wpc'[i] = "exited") =>
                   (wpc[i] = "match" /\ message[i].tag = "Err")
            /\ (Running(i) /\ wpc'[i] = "panicked") =>
                   \/ wpc[i] = "run" /\ message[i].job.kind = "panic"
                   \/ wpc[i] = "match" /\ message[i].tag \in {"Ok", "Err"}
            /\ message[i].tag = "Err" =>
                   \/ /\ wpc[i] \in {"unlock", "match", "exited"}
                      /\ wpc'[i] \in {"unlock", "match", "exited"}
                      /\ message'[i] = message[i]
                   \/ wpc[i] = "match" /\ wpc'[i] = "panicked"
            /\ ~Running(i) => (wpc'[i] = wpc[i] /\ message'[i] = message[i]) ]_vars

\* One worker has stopped on the closure signal while another is still
\* running a job.
C15_Witness ==
    \E i, k \in DOMAIN wpc :
        /\ wpc[i] = "exited" /\ message[i].tag = "Err"
        /\ wpc[k] = "run"

\* ------------------------------------------------------------------------
\* C16 -- Teardown consumes each resource once.  In every step the Sender is
\* dropped at most once and every thread is joined at most once; a field that
\* is None stays None; running drop on a pool whose sender and handles are all
\* None, by a call or in the unwinding of a panic of the owner, closes
\* nothing, joins nothing and leaves the pool, the channel and the threads as
\* they are.
TornDown ==
    /\ pc \notin {"start", "drop_join"}
    /\ NumWorkers >= 1
    /\ sender = "None"
    /\ \A i \in DOMAIN workers : workers[i].thread = "None"

ConsumedAtMostOnce ==
    /\ closes' <= 1
    /\ (pc' # "start" /\ size' >= 1) =>
           closes' = (IF sender' = "Some" THEN 0 ELSE 1)
    /\ (pc # "start" /\ sender = "None") => sender' = "None"
    /\ \A i \in DOMAIN workers :
           /\ joins'[i] <= 1
           /\ workers[i].thread = "None" => workers'[i].thread = "None"
           /\ joins'[i] # joins[i] =>
                  (workers[i].thread = "None" /\ pc = "drop_join" /\ di = i)
           /\ (workers[i].thread # workers'[i].thread) => joins[i] = 0
    /\ TornDown =>
           /\ TornDown'
           /\ UNCHANGED << workers, sender, senders, queue, lock, poisoned,
                           wpc, message, closes, joins, submitted, claimed,
                           started, finished, panicked, discarded, unrun >>

\* drop is over: it returned, or it ended in a panic, of a join or of a write.
TeardownEnded ==
    \/ DropReturned
    \/ pc = "fault" /\ fault \in {"join_err", "io_err"}
    \/ pc = "aborted"

\* The Sender was dropped once and every handle was taken and joined once.
AllConsumedOnce ==
    /\ closes = 1
    /\ sender = "None"
    /\ \A i \in DOMAIN workers : workers[i].thread = "None" /\ joins[i] = 1

\* C16 as claimed: on top of the above, a teardown that is over has closed
\* the producer exactly once and has taken and joined every handle exactly
\* once.
C16_Original ==
    [][ ConsumedAtMostOnce /\ (TeardownEnded' => AllConsumedOnce') ]_vars

\* C16 amended -- exactly once holds for a drop that returns; a handle is
\* taken if and only if it is joined (or being joined); a drop that ends in a
\* panic has closed the producer once and has taken and joined once every
\* handle before the one it stopped at; when the panic is that of a join, the
\* handle it stopped at is taken and joined too, and the handles behind it
\* are left Some and unjoined.
C16_TeardownOnce ==
    [][ /\ ConsumedAtMostOnce
        /\ DropReturned' => AllConsumedOnce'
        /\ \A i \in DOMAIN workers' :
               \/ workers'[i].thread = "None" /\ joins'[i] = 1
               \/ workers'[i].thread = "Some" /\ joins'[i] = 0
               \/ /\ workers'[i].thread = "None" /\ joins'[i] = 0
                  /\ pc' = "drop_join" /\ di' = i
        /\ (TeardownEnded' /\ ~DropReturned') =>
               /\ closes' = 1 /\ sender' = "None"
               /\ \A i \in DOMAIN workers' :
                      i < di' => workers'[i].thread = "None" /\ joins'[i] = 1
        /\ (pc' = "fault" /\ fault' = "join_err") =>
               /\ wpc'[di'] = "panicked"
               /\ workers'[di'].thread = "None" /\ joins'[di'] = 1
               /\ \A i \in DOMAIN workers' :
                      i > di' => workers'[i].thread = "Some" /\ joins'[i] = 0 ]_vars

\* drop has been entered again on a pool of three workers that a first drop
\* tore down.
C16_Witness ==
    /\ NumWorkers = 3
    /\ pc = "drop_loop"
    /\ di = 1
    /\ TornDown
    /\ closes = 1
    /\ \A i \in DOMAIN joins : joins[i] = 1

\* ------------------------------------------------------------------------
\* C17 -- A worker runs at most one job at a time and claims its next job only
\* after the previous one has ended: recv is entered with no job held, a job
\* that was claimed is entered by the worker that claimed it, a job that is
\* running stays with its worker until job() returns or unwinds, and the
\* number of jobs entered and not yet ended is the number of workers inside
\* job(), at most one per worker and so at most the worker count.
\* The code breaks the second part when the write of "got a job" fails: the
\* worker dies with the claimed job, which is dropped without being called.
InFlight(j) == started[j] - finished[j] - (IF j \in panicked THEN 1 ELSE 0)

C17_OneJobPerWorker ==
    [][ /\ \A i \in DOMAIN wpc :
               /\ wpc'[i] \in {"lock", "recv"} => message'[i] = NoMessage
               /\ wpc'[i] \in {"match", "run"} /\ message'[i].tag = "Ok" =>
                      (wpc[i] \in {"unlock", "match", "run"})
               /\ (wpc[i] = "match" /\ message[i].tag = "Ok") =>
                      \/ wpc'[i] = "match" /\ message'[i] = message[i]
                      \/ /\ wpc'[i] = "run" /\ message'[i] = message[i]
                         /\ started'[message[i].job.id] = 1
               /\ wpc[i] = "run" =>
                      \/ wpc'[i] = "run" /\ message'[i] = message[i]
                      \/ wpc'[i] = "lock" /\ finished'[message[i].job.id] = 1
                      \/ wpc'[i] = "panicked" /\ message[i].job.id \in panicked'
        /\ \A j \in JobIds :
               InFlight(j)' = Cardinality({i \in Executing' : message'[i].job.id = j})
        /\ \A j \in JobIds : InFlight(j)' \in {0, 1}
        /\ SumTo([j \in JobIds |-> InFlight(j)'], MaxJobs) <= NumWorkers' ]_vars

\* ------------------------------------------------------------------------
\* C18 -- Worker failure is isolated.  A worker thread terminates abnormally
\* only inside job() or at a failed write of the match, where it holds no
\* guard: the mutex is never poisoned and
\* never left locked by a dead worker, so whenever the lock is free a live
\* worker waiting for it can take it and go on to recv (as long as the
\* process has not been aborted).  The failed worker
\* never moves again and the set of workers stays as constructed.
C18_FailureIsolated ==
    [][ /\ ~poisoned'
        /\ lock' # NoWorker => (lock' \in DOMAIN wpc' /\ wpc'[lock'] \in {"recv", "unlock"})
        /\ pc # "start" => DOMAIN wpc' = DOMAIN wpc
        /\ \A i \in DOMAIN wpc :
               /\ (wpc'[i] = "panicked" /\ wpc[i] # "panicked") =>
                      (wpc[i] \in {"run", "match"} /\ lock # i)
               /\ wpc[i] = "panicked" =>
                      (wpc'[i] = "panicked" /\ message'[i] = NoMessage)
               /\ (ProcessAlive /\ wpc[i] = "lock" /\ lock = NoWorker) =>
                      (ENABLED WorkerLock(i)
                       /\ (WorkerLock(i) => wpc'[i] = "recv" /\ lock' = i)) ]_vars

\* One worker has died in job 1; another worker holds the lock and is about
\* to receive a queued job, after having finished job 2.
C18_Witness ==
    \E i, k \in DOMAIN wpc :
        /\ wpc[i] = "panicked" /\ panicked = {1}
        /\ wpc[k] = "recv" /\ lock = k
        /\ queue # << >>
        /\ Finished = {2}

\* ------------------------------------------------------------------------
\* C19 -- Teardown join failure is fatal.  drop never gets past a worker
\* whose thread panicked: it has not returned while such a worker exists and
\* every worker it has passed exited normally.  A drop that runs while some
\* worker thread has panicked ends, and ends only, at the join of a panicked
\* thread (unwrap on the join error): in the fault of the join, or, when drop
\* runs in the unwinding of a panic of the owner, in the abort of the process.
\* The code breaks it when a write to stdout fails: drop panics at its
\* println!("Shutting down worker") before it reaches the join, with the
\* handle of the dead thread still in place.
NeverPastPanicked ==
    [][ /\ DropReturned' => ~WorkerDied'
        /\ pc' \in {"drop_loop", "drop_join"} =>
               \A i \in DOMAIN wpc' : i < di' => wpc'[i] # "panicked"
        /\ (pc = "drop_join" /\ pc' # pc) =>
               IF wpc[di] = "panicked"
               THEN /\ joins'[di] = 1
                    /\ IF Unwinding
                       THEN pc' = "aborted" /\ fault' = fault
                       ELSE fault = "none" /\ pc' = "fault" /\ fault' = "join_err"
               ELSE pc' = "drop_loop" /\ fault' = fault /\ wpc[di] = "exited"
        /\ (InDrop /\ ~InDrop' /\ WorkerDied) =>
               pc = "drop_join" /\ wpc[di] = "panicked"
        /\ fault' = "join_err" =>
               /\ wpc'[di'] = "panicked" /\ sender' = "None"
               /\ pc' \in {"fault", "exit"}
        /\ ~ProcessAlive => UNCHANGED vars ]_vars

C19_JoinFailureFatal ==
    /\ NeverPastPanicked
    /\ (InDrop /\ WorkerDied)
           ~> ((pc = "fault" /\ fault = "join_err") \/ pc = "aborted")

\* ------------------------------------------------------------------------
\* C20 -- The Receiver lives only as long as some worker thread does.  Once
\* every worker thread has terminated, the channel holds nothing any more, a
\* call of execute ends in the fault of unwrap on the send error also when
\* teardown has not begun (the sender still Some), and the jobs that were
\* queued at that point are never entered.
AllTerminated == pc # "start" /\ size >= 1 /\ \A i \in DOMAIN wpc : Terminated(i)

C20_ReceiverDiesWithWorkers ==
    [][ /\ AllTerminated' => queue' = << >>
        /\ (AllTerminated /\ sender = "Some" /\ calls' # calls) =>
               /\ pc' = "fault"
               /\ fault' = "send_err"
               /\ queue' = queue
               /\ submitted' = submitted
        /\ \A j \in discarded' :
               started'[j] = 0 /\ finished'[j] = 0 /\ j \notin panicked'
        /\ \A j \in unrun' : started'[j] = 0 /\ finished'[j] = 0
        /\ discarded \subseteq discarded'
        /\ (discarded' # discarded) => (AllTerminated' /\ ~AllTerminated) ]_vars

\* Every worker of the pool has died, a queued job was lost with the
\* Receiver, and execute on the pool, never torn down, ended in the fault.
C20_Witness ==
    /\ AllTerminated
    /\ closes = 0
    /\ sender = "Some"
    /\ discarded # {}
    /\ fault = "send_err"

====
